---- MODULE Spec2Model ----
(***************************************************************************)
(* Parallel keyword search over the files of a directory, in its two      *)
(* variants: multiprocessing_search (src/search_multiprocessing.py, one    *)
(* process per chunk, partial results handed back over a queue) and        *)
(* threaded_search (src/search_threading.py, one thread per chunk, one     *)
(* shared map guarded by a lock).                                          *)
(*                                                                         *)
(* Strings are sequences of characters, a file path is the index of its    *)
(* entry in the directory listing, a dict is a function whose DOMAIN is    *)
(* its key set.                                                            *)
(***************************************************************************)
EXTENDS Integers, Sequences, FiniteSets, TLC

\* ------------------------------------------------------------------ bounds
\* Most entries root.rglob("*") yields.
MaxFiles == 2
\* Longest keyword sequence.
MaxKeywords == 2
\* Longest keyword sequence of the searches checked for termination.
MaxFairKeywords == 1
\* Largest value os.cpu_count() reports.
MaxCpu == 2

\* os.cpu_count() or 2 / os.cpu_count() or 4: the fallbacks when it is None.
DefaultProcs == 2
DefaultThreads == 4

\* ------------------------------------------------------------- input sets
Modes == {"mp", "th"}

\* File contents and keywords the inputs are drawn from: "b" is in "ab" as
\* written, "b" is in "B" and "Ab" is in "ab" only when case is ignored,
\* "Ab" is never in "B".
Contents == {<<"a", "b">>, <<"B">>}
KeywordPool == {<<"b">>, <<"A", "b">>}

\* Suffixes of directory entries and members of allow_extensions.
SuffixT == <<".", "t">>
SuffixTUpper == <<".", "T">>
SuffixM == <<".", "m">>

\* What _read_text_safely finds in a file: text, or a read/decode failure.
Readable(text) == [readable |-> TRUE, text |-> text]
Unreadable == [readable |-> FALSE, text |-> <<>>]
FileStates == {Readable(t) : t \in Contents} \cup {Unreadable}

Entries(suffixes) ==
    {[suffix |-> s, file |-> f] : s \in suffixes, f \in FileStates}

SeqsUpTo(S, n) == UNION {[1..k -> S] : k \in 0..n}

\* ------------------------------------------------------------ str helpers
\* str.lower() on the characters of the model's alphabet.
LowerChar(c) ==
    CASE c = "A" -> "a"
      [] c = "B" -> "b"
      [] c = "T" -> "t"
      [] c = "M" -> "m"
      [] OTHER -> c

Lower(s) == [i \in 1..Len(s) |-> LowerChar(s[i])]

\* kw in content: substring containment.
Contains(kw, content) ==
    \E i \in 0..(Len(content) - Len(kw)) :
        SubSeq(content, i + 1, i + Len(kw)) = kw

\* The test of one keyword against one file's content, lines 55-63 (mp) and
\* 45-55 (th): both sides lowercased when case_insensitive.
KeywordFound(kw, content, ci) ==
    IF ci THEN Contains(Lower(kw), Lower(content)) ELSE Contains(kw, content)

\* --------------------------------------------------------------- dict ops
EmptyMap == <<>>

Range(s) == {s[i] : i \in DOMAIN s}

\* d[kw].insert(0, path) in place of the append.
DictAppendFront(d, kw, path) ==
    IF kw \in DOMAIN d
    THEN [d EXCEPT ![kw] = <<path>> \o @]
    ELSE [k \in DOMAIN d \cup {kw} |-> IF k = kw THEN <<path>> ELSE d[k]]

\* defaultdict(list): d[kw].append(path)
DictAppend(d, kw, path) ==
    IF kw \in DOMAIN d
    THEN [d EXCEPT ![kw] = Append(@, path)]
    ELSE [k \in DOMAIN d \cup {kw} |-> IF k = kw THEN <<path>> ELSE d[k]]

\* The new paths put in front of the list.
DictExtendPrepend(d, kw, paths) ==
    IF kw \in DOMAIN d
    THEN [d EXCEPT ![kw] = paths \o @]
    ELSE [k \in DOMAIN d \cup {kw} |-> IF k = kw THEN paths ELSE d[k]]

\* aggregated[kw].extend(paths)
DictExtend(d, kw, paths) ==
    IF kw \in DOMAIN d
    THEN [d EXCEPT ![kw] = @ \o paths]
    ELSE [k \in DOMAIN d \cup {kw} |-> IF k = kw THEN paths ELSE d[k]]

\* ------------------------------------------------------------ partitioner
\* _chunks(seq, n): [seq] when n <= 0; otherwise slices of
\* size = (len(seq) + n - 1) // n. range(0, len(seq), 0) raises ValueError,
\* which is what an empty seq with n >= 1 gives.
\* The size rounded down: len(seq) // n.
ChunkSizeFloor(len, n) == len \div n

ChunkSize(len, n) == (len + n - 1) \div n

\* Slices that stop one element early: seq[i:i + size - 1].
_chunksShortSlices(seq, n) ==
    IF n <= 0 THEN [error |-> FALSE, chunks |-> <<seq>>]
    ELSE LET size == ChunkSize(Len(seq), n) IN
         IF size = 0 THEN [error |-> TRUE, chunks |-> <<>>]
         ELSE LET count == (Len(seq) + size - 1) \div size IN
              [error |-> FALSE,
               chunks |-> [c \in 1..count |->
                   SubSeq(seq, (c - 1) * size + 1,
                          IF c * size - 1 < Len(seq) THEN c * size - 1
                          ELSE Len(seq))]]

_chunks(seq, n) ==
    IF n <= 0 THEN [error |-> FALSE, chunks |-> <<seq>>]
    ELSE LET size == ChunkSize(Len(seq), n) IN
         IF size = 0 THEN [error |-> TRUE, chunks |-> <<>>]
         ELSE LET count == (Len(seq) + size - 1) \div size IN
              [error |-> FALSE,
               chunks |-> [c \in 1..count |->
                   SubSeq(seq, (c - 1) * size + 1,
                          IF c * size < Len(seq) THEN c * size ELSE Len(seq))]]

\* ------------------------------------------------------------------ state
VARIABLES
    mode,              \* "mp": multiprocessing_search, "th": threaded_search
    dir,               \* what root.rglob("*") yields: the files under root
    keywords,          \* the keyword sequence
    allow_extensions,  \* the set of allowed suffixes ({} also stands for None)
    case_insensitive,
    pc,                \* where the search function is
    files,             \* the filtered file list (paths: indices into dir)
    num_workers,       \* num_procs / num_threads
    chunks,            \* what _chunks returned
    next_chunk,        \* position of the spawning loop in chunks
    batch,             \* the spawning loop's variable
    workers,           \* procs / threads, one record per started worker
    result_queue,      \* mp: partial results put and not yet got
    received,          \* mp: result_queue.get() calls that returned
    aggregated,        \* mp: the orchestrator's merged map
    results,           \* th: the map shared by the threads
    lock,              \* th: 0 when free, else the thread holding it
    joined,            \* workers joined so far
    result,            \* the mapping the search returned
    calls,             \* how often _chunks, the queue and the lock were used
    history            \* mp: who put and what was got, in the order it happened

inputs == <<mode, dir, keywords, allow_extensions, case_insensitive>>
orch == <<pc, files, num_workers, chunks, next_chunk, batch, joined, result>>
shared == <<result_queue, received, aggregated, results, lock>>
vars == <<inputs, orch, shared, workers, calls, history>>

NoContent == [readable |-> FALSE, text |-> <<>>]

NoCalls == [chunks |-> 0, queue |-> 0, lock |-> 0]

\* Nothing put or got yet: puts holds the processes in the order of their
\* puts, partials the partial results in the order they were got.
NoHistory == [puts |-> <<>>, partials |-> <<>>]

\* The state when the search function is entered with the given inputs.
InitWith(dirs, allows, kwseqs) ==
    /\ mode \in Modes
    /\ dir \in dirs
    /\ keywords \in kwseqs
    /\ allow_extensions \in allows
    /\ case_insensitive \in BOOLEAN
    /\ pc = "collect"
    /\ files = <<>>
    /\ num_workers = 0
    /\ chunks = <<>>
    /\ next_chunk = 0
    /\ batch = <<>>
    /\ workers = <<>>
    /\ result_queue = <<>>
    /\ received = 0
    /\ aggregated = EmptyMap
    /\ results = EmptyMap
    /\ lock = 0
    /\ joined = 0
    /\ result = EmptyMap
    /\ calls = NoCalls
    /\ history = NoHistory

\* Searches of up to MaxFiles entries with suffix .t or .m, restricted to .t
\* files, for up to MaxKeywords keywords.
Init ==
    InitWith(SeqsUpTo(Entries({SuffixT, SuffixM}), MaxFiles),
             {{SuffixT}},
             SeqsUpTo(KeywordPool, MaxKeywords) \ {<<>>})

\* ----------------------------------------------------------- orchestrator
\* Lines 103-107 (mp), 92-96 (th): an entry is kept when allow_extensions is
\* falsy or its lowercased suffix is a member of allow_extensions.
Allowed(suffix, allow) ==
    IF allow # {} THEN Lower(suffix) \in allow ELSE TRUE

RECURSIVE CollectFrom(_, _, _)
CollectFrom(d, allow, i) ==
    IF i > Len(d) THEN <<>>
    ELSE IF Allowed(d[i].suffix, allow)
         THEN <<i>> \o CollectFrom(d, allow, i + 1)
         ELSE CollectFrom(d, allow, i + 1)

CollectFiles(d, allow) == CollectFrom(d, allow, 1)

\* Collect without the early return on an empty file list.
CollectAlwaysPlans ==
    /\ pc = "collect"
    /\ files' = CollectFiles(dir, allow_extensions)
    /\ pc' = "plan"
    /\ UNCHANGED <<inputs, num_workers, chunks, next_chunk, batch, joined,
                   result, shared, workers, calls, history>>

\* Lines 99-111 (mp), 88-100 (th): collect the files; return {} when none.
Collect ==
    /\ pc = "collect"
    /\ files' = CollectFiles(dir, allow_extensions)
    /\ IF files' = <<>>
       THEN pc' = "returned" /\ result' = EmptyMap
       ELSE pc' = "plan" /\ UNCHANGED result
    /\ UNCHANGED <<inputs, num_workers, chunks, next_chunk, batch, joined,
                   shared, workers, calls, history>>

\* os.cpu_count(): None (0 here) or a positive count.
CpuCounts == 0..MaxCpu

Max(a, b) == IF a >= b THEN a ELSE b
Min(a, b) == IF a <= b THEN a ELSE b

\* max_procs = os.cpu_count() or 2; num_procs = max(1, min(len(files), max_procs))
WorkerCount(nfiles, cpu, default) ==
    Max(1, Min(nfiles, IF cpu = 0 THEN default ELSE cpu))

\* Lines 113-119 (mp), 102-109 (th): the worker count, the queue or the map
\* and its lock, and the chunks the spawning loop will go through.
Plan ==
    /\ pc = "plan"
    /\ \E cpu \in CpuCounts :
         LET n == WorkerCount(Len(files), cpu,
                              IF mode = "mp" THEN DefaultProcs ELSE DefaultThreads)
             r == _chunks(files, n)
         IN /\ num_workers' = n
            /\ chunks' = r.chunks
            /\ pc' = IF r.error THEN "error" ELSE "spawn"
    /\ next_chunk' = 1
    /\ calls' = [calls EXCEPT !.chunks = @ + 1]
    /\ UNCHANGED <<inputs, files, batch, joined, result, shared, workers,
                   history>>

\* A worker as it is started. In mp the chunk is passed in args, so it is
\* bound when the Process is created (line 124); in th the lambda reads the
\* variable batch only when the thread runs it (line 114).
NewWorker(m, b) ==
    [pc |-> IF m = "mp" THEN "read" ELSE "start",
     items |-> IF m = "mp" THEN b ELSE <<>>,
     fi |-> 1,
     ki |-> 1,
     content |-> NoContent,
     local |-> EmptyMap]

\* Where the search function goes when the spawning loop is over.
AfterSpawn(m) == IF m = "mp" THEN "get" ELSE "join"

\* Lines 119-128 (mp), 109-119 (th): one iteration of the spawning loop:
\* bind batch to the next chunk, skip it when empty, else create the worker,
\* append it to procs / threads and start it.
Spawn ==
    /\ pc = "spawn"
    /\ next_chunk <= Len(chunks)
    /\ batch' = chunks[next_chunk]
    /\ workers' = IF batch' = <<>> THEN workers
                  ELSE Append(workers, NewWorker(mode, batch'))
    /\ next_chunk' = next_chunk + 1
    /\ pc' = IF next_chunk' > Len(chunks) THEN AfterSpawn(mode) ELSE "spawn"
    /\ UNCHANGED <<inputs, files, num_workers, chunks, joined, result, shared,
                   calls, history>>

\* for kw, paths in partial.items(): aggregated[kw].extend(paths)
RECURSIVE MergeKeys(_, _, _)
MergeKeys(agg, partial, keys) ==
    IF keys = {} THEN agg
    ELSE LET kw == CHOOSE k \in keys : TRUE IN
         MergeKeys(DictExtend(agg, kw, partial[kw]), partial, keys \ {kw})

\* The merge with aggregated[kw] = paths in place of the extend.
MergePartialOverwrite(agg, partial) ==
    [k \in DOMAIN agg \cup DOMAIN partial |->
        IF k \in DOMAIN partial THEN partial[k] ELSE agg[k]]

MergePartial(agg, partial) == MergeKeys(agg, partial, DOMAIN partial)

\* One get more than there are workers.
GetCountOffByOne(procs) == Len(procs) + 1

\* Gets only for the processes that are still alive or ended normally.
GetCountAlive(procs) ==
    Cardinality({i \in DOMAIN procs : procs[i].pc # "crashed"})

\* for _ in range(len(procs)): the number of blocking gets.
GetCount(procs) == Len(procs)

\* Lines 132-135: one iteration of the collecting loop: a blocking get, which
\* returns only when the queue holds a partial result, then the merge.
Get ==
    /\ pc = "get"
    /\ mode = "mp"
    /\ received < GetCount(workers)
    /\ result_queue # <<>>
    /\ aggregated' = MergePartial(aggregated, Head(result_queue))
    /\ result_queue' = Tail(result_queue)
    /\ received' = received + 1
    /\ calls' = [calls EXCEPT !.queue = @ + 1]
    /\ history' = [history EXCEPT !.partials = Append(@, Head(result_queue))]
    /\ pc' = IF received' >= GetCount(workers) THEN "join" ELSE "get"
    /\ UNCHANGED <<inputs, files, num_workers, chunks, next_chunk, batch,
                   joined, result, results, lock, workers>>

\* A join that returns at once, whatever the worker is doing.
TerminatedAlways(w) == TRUE

\* p.join() / th.join() returns once the worker has terminated.
Terminated(w) == w.pc \in {"done", "crashed"}

\* Lines 137-138 (mp), 121-122 (th): join the next worker.
Join ==
    /\ pc = "join"
    /\ joined < Len(workers)
    /\ Terminated(workers[joined + 1])
    /\ joined' = joined + 1
    /\ pc' = IF joined' = Len(workers) THEN "report" ELSE "join"
    /\ UNCHANGED <<inputs, files, num_workers, chunks, next_chunk, batch,
                   result, shared, workers, calls, history>>

\* Lines 140-143 (mp), 124-127 (th): print the report and return
\* dict(aggregated) / dict(results).
Return ==
    /\ pc = "report"
    /\ result' = IF mode = "mp" THEN aggregated ELSE results
    /\ pc' = "returned"
    /\ UNCHANGED <<inputs, files, num_workers, chunks, next_chunk, batch,
                   joined, shared, workers, calls, history>>

\* ---------------------------------------------------------------- workers
\* _read_text_safely: the text, or None on OSError / UnicodeError.
_read_text_safely(d, path) ==
    IF d[path].file.readable THEN d[path].file ELSE NoContent

\* The worker's position after the keyword loop of a file is over: the next
\* file of its chunk, or the end of the chunk (mp: the put; th: the lambda
\* returns and the thread ends).
NextFile(w, m) ==
    IF w.fi < Len(w.items)
    THEN [w EXCEPT !.fi = @ + 1, !.ki = 1, !.pc = "read"]
    ELSE [w EXCEPT !.fi = @ + 1, !.ki = 1,
                   !.pc = IF m = "mp" THEN "put" ELSE "done"]

\* The worker's position after one keyword: the next keyword, or the next file.
NextKeyword(w, m, kws) ==
    IF w.ki < Len(kws)
    THEN [w EXCEPT !.ki = @ + 1, !.pc = "test"]
    ELSE NextFile(w, m)

\* Line 114: the thread runs the lambda, whose comprehension reads the
\* variable batch as it is at that moment.
ThreadStart(i) ==
    /\ mode = "th"
    /\ workers[i].pc = "start"
    /\ workers' = [workers EXCEPT ![i] = [@ EXCEPT !.items = batch, !.pc = "read"]]
    /\ UNCHANGED <<inputs, orch, shared, calls, history>>

\* Lines 51-53 (mp), 41-43 (th): read the file; skip it when that failed.
ReadFile(i) ==
    /\ workers[i].pc = "read"
    /\ LET w == workers[i]
           c == _read_text_safely(dir, w.items[w.fi])
           r == [w EXCEPT !.content = c]
       IN workers' = [workers EXCEPT ![i] =
              IF c.readable /\ keywords # <<>>
              THEN [r EXCEPT !.ki = 1, !.pc = "test"]
              ELSE NextFile(r, mode)]
    /\ UNCHANGED <<inputs, orch, shared, calls, history>>

\* The lookup local[kw] done before the test: a defaultdict then holds the key
\* with an empty list although nothing matched.
RecordTouching(d, kw, path, hit) ==
    IF hit THEN DictAppend(d, kw, path)
    ELSE IF kw \in DOMAIN d THEN d
         ELSE [k \in DOMAIN d \cup {kw} |-> IF k = kw THEN <<>> ELSE d[k]]

\* Lines 58-59 / 62-63: if kw in content: local[kw].append(str(fp))
Record(d, kw, path, hit) == IF hit THEN DictAppend(d, kw, path) ELSE d

\* Lines 57-59 / 61-63 (mp): test one keyword and append the path to the
\* worker's own map. Lines 47-48 / 52-53 (th): test one keyword; a match goes
\* on to the lock.
TestKeyword(i) ==
    /\ workers[i].pc = "test"
    /\ LET w == workers[i]
           kw == keywords[w.ki]
           hit == KeywordFound(kw, w.content.text, case_insensitive)
       IN workers' = [workers EXCEPT ![i] =
              IF mode = "mp"
              THEN NextKeyword(
                       [w EXCEPT !.local = Record(@, kw, w.items[w.fi], hit)],
                       mode, keywords)
              ELSE IF hit THEN [w EXCEPT !.pc = "acquire"]
                   ELSE NextKeyword(w, mode, keywords)]
    /\ UNCHANGED <<inputs, orch, shared, calls, history>>

\* The append entered without waiting for the lock.
AcquireNoWait(i) ==
    /\ workers[i].pc = "acquire"
    /\ lock' = i
    /\ workers' = [workers EXCEPT ![i] = [@ EXCEPT !.pc = "append"]]
    /\ calls' = [calls EXCEPT !.lock = @ + 1]
    /\ UNCHANGED <<inputs, orch, result_queue, received, aggregated, results,
                   history>>

\* Lines 49 / 54: with lock: blocks until the lock is free.
Acquire(i) ==
    /\ workers[i].pc = "acquire"
    /\ lock = 0
    /\ lock' = i
    /\ workers' = [workers EXCEPT ![i] = [@ EXCEPT !.pc = "append"]]
    /\ calls' = [calls EXCEPT !.lock = @ + 1]
    /\ UNCHANGED <<inputs, orch, result_queue, received, aggregated, results,
                   history>>

\* Lines 50 / 55: out_map[kw].append(str(file_path)), then the with block
\* releases the lock.
AppendRelease(i) ==
    /\ workers[i].pc = "append"
    /\ lock = i
    /\ LET w == workers[i] IN
       /\ results' = DictAppend(results, keywords[w.ki], w.items[w.fi])
       /\ workers' = [workers EXCEPT ![i] = NextKeyword(w, mode, keywords)]
    /\ lock' = 0
    /\ UNCHANGED <<inputs, orch, result_queue, received, aggregated, calls,
                   history>>

\* The put made twice.
PutTwice(i) ==
    /\ workers[i].pc = "put"
    /\ result_queue' = result_queue \o <<workers[i].local, workers[i].local>>
    /\ workers' = [workers EXCEPT ![i] = [@ EXCEPT !.pc = "done"]]
    /\ calls' = [calls EXCEPT !.queue = @ + 2]
    /\ history' = [history EXCEPT !.puts = @ \o <<i, i>>]
    /\ UNCHANGED <<inputs, orch, received, aggregated, results, lock>>

\* Line 66: result_queue.put(dict(local)), after which the process ends.
Put(i) ==
    /\ workers[i].pc = "put"
    /\ result_queue' = Append(result_queue, workers[i].local)
    /\ workers' = [workers EXCEPT ![i] = [@ EXCEPT !.pc = "done"]]
    /\ calls' = [calls EXCEPT !.queue = @ + 1]
    /\ history' = [history EXCEPT !.puts = Append(@, i)]
    /\ UNCHANGED <<inputs, orch, received, aggregated, results, lock>>

\* A worker process that dies before its put (killed, out of memory): nothing
\* in lines 122-138 notices it.
Crash(i) ==
    /\ mode = "mp"
    /\ workers[i].pc \in {"read", "test", "put"}
    /\ workers' = [workers EXCEPT ![i] = [@ EXCEPT !.pc = "crashed"]]
    /\ UNCHANGED <<inputs, orch, shared, calls, history>>

\* ---------------------------------------------------------- specifications
Next ==
    \/ Collect
    \/ Plan
    \/ Spawn
    \/ Get
    \/ Join
    \/ Return
    \/ \E i \in DOMAIN workers : ThreadStart(i)
    \/ \E i \in DOMAIN workers : ReadFile(i)
    \/ \E i \in DOMAIN workers : TestKeyword(i)
    \/ \E i \in DOMAIN workers : Acquire(i)
    \/ \E i \in DOMAIN workers : AppendRelease(i)
    \/ \E i \in DOMAIN workers : Put(i)
    \/ \E i \in DOMAIN workers : Crash(i)

Spec == Init /\ [][Next]_vars

\* The extension filter: directories of up to MaxFilterFiles readable files
\* with every casing of suffix, every set of allowed suffixes, one keyword.
MaxFilterFiles == 2

FilterSuffixes == {<<>>, SuffixT, SuffixTUpper, SuffixM}

InitFilter ==
    InitWith(SeqsUpTo({[suffix |-> x, file |-> Readable(<<"a", "b">>)] :
                           x \in FilterSuffixes}, MaxFilterFiles),
             SUBSET {SuffixT, SuffixTUpper, SuffixM},
             {<<(<<"b">>)>>})

SpecFilter == InitFilter /\ [][Next]_vars

\* No worker crashes, and the scheduler lets every process and thread that
\* can take a step take one eventually.
NextNoCrash ==
    \/ Collect
    \/ Plan
    \/ Spawn
    \/ Get
    \/ Join
    \/ Return
    \/ \E i \in DOMAIN workers : ThreadStart(i)
    \/ \E i \in DOMAIN workers : ReadFile(i)
    \/ \E i \in DOMAIN workers : TestKeyword(i)
    \/ \E i \in DOMAIN workers : Acquire(i)
    \/ \E i \in DOMAIN workers : AppendRelease(i)
    \/ \E i \in DOMAIN workers : Put(i)

InitFair ==
    InitWith(SeqsUpTo(Entries({SuffixT, SuffixM}), MaxFiles),
             {{SuffixT}},
             SeqsUpTo(KeywordPool, MaxFairKeywords) \ {<<>>})

FairSpec == InitFair /\ [][NextNoCrash]_vars /\ WF_vars(NextNoCrash)

\* The partitioner on its own and inside the search: _chunks called with a
\* list of up to MaxChunkLen paths and any n from -1 to MaxChunkN, and
\* searches over up to MaxChunkLen readable .t files taken as far as the end
\* of the spawning loop.
MaxChunkLen == 6
MaxChunkN == 7

ChunkArgs == -1..MaxChunkN

PathsUpTo(len) == [i \in 1..len |-> i]

InitChunks ==
    /\ mode \in Modes
    /\ \E len \in 0..MaxChunkLen :
         /\ dir = [i \in 1..len |->
                      [suffix |-> SuffixT, file |-> Readable(<<"a", "b">>)]]
         /\ \/ /\ pc = "call_chunks"
               /\ files = PathsUpTo(len)
               /\ num_workers \in ChunkArgs
            \/ /\ pc = "collect"
               /\ files = <<>>
               /\ num_workers = 0
    /\ keywords = <<(<<"b">>)>>
    /\ allow_extensions = {SuffixT}
    /\ case_insensitive = FALSE
    /\ chunks = <<>>
    /\ next_chunk = 0
    /\ batch = <<>>
    /\ workers = <<>>
    /\ result_queue = <<>>
    /\ received = 0
    /\ aggregated = EmptyMap
    /\ results = EmptyMap
    /\ lock = 0
    /\ joined = 0
    /\ result = EmptyMap
    /\ calls = NoCalls
    /\ history = NoHistory

\* Lines 69-74 (mp), 58-63 (th): one call _chunks(files, num_workers); the
\* ValueError of range() leaves the caller with no chunks.
ChunksCall ==
    /\ pc = "call_chunks"
    /\ LET r == _chunks(files, num_workers)
       IN /\ chunks' = r.chunks
          /\ pc' = IF r.error THEN "error" ELSE "chunked"
    /\ calls' = [calls EXCEPT !.chunks = @ + 1]
    /\ UNCHANGED <<inputs, files, num_workers, next_chunk, batch, joined,
                   result, shared, workers, history>>

NextChunks ==
    \/ ChunksCall
    \/ Collect
    \/ Plan
    \/ Spawn

SpecChunks == InitChunks /\ [][NextChunks]_vars

\* ----------------------------------------------------------------- claims
Returned == pc = "returned"

\* A mapping as a set of (keyword, path) pairs.
Pairs(m) == UNION {{<<k, m[k][i]>> : i \in 1..Len(m[k])} : k \in DOMAIN m}

NoDup(s) == \A i, j \in 1..Len(s) : i # j => s[i] # s[j]

\* k occurs in s: s = x \o k \o y for some x, y.
IsSubstring(k, s) ==
    \E a \in 0..Len(s) : \E b \in a..Len(s) : SubSeq(s, a + 1, b) = k

Fold(s) == IF case_insensitive THEN Lower(s) ELSE s

\* File f is in the filtered list, could be read, and holds keyword k.
ShouldMatch(f, k) ==
    /\ f \in Range(files)
    /\ dir[f].file.readable
    /\ IsSubstring(Fold(k), Fold(dir[f].file.text))

Recorded(m, f, k) == k \in DOMAIN m /\ f \in Range(m[k])

CompleteResult ==
    /\ DOMAIN result \subseteq Range(keywords)
    /\ \A f \in DOMAIN dir : \A k \in Range(keywords) :
           Recorded(result, f, k) <=> ShouldMatch(f, k)

\* C1: when multiprocessing_search has returned, path F is in result[K]
\* exactly when F is in the filtered file list, F could be read and K occurs
\* in F's content (both lowercased when case_insensitive), whatever the order
\* in which the workers completed.
CompletenessIsolated == (mode = "mp" /\ Returned) => CompleteResult

\* C1's case: several processes whose results arrived in another order than
\* they were started, merged under case_insensitive.
CompletenessIsolatedWitness ==
    /\ mode = "mp"
    /\ Returned
    /\ Len(workers) >= 2
    /\ case_insensitive
    /\ \E k \in DOMAIN result :
           /\ Len(result[k]) >= 2
           /\ result[k][1] > result[k][2]
    /\ \E f \in Range(files) : \E k \in Range(keywords) : ~ShouldMatch(f, k)

\* C2: when threaded_search has returned, path F is in result[K] exactly when
\* F is in the file list, F could be read and K occurs in F's content,
\* under every interleaving of the spawning loop with the started threads.
CompletenessShared == (mode = "th" /\ Returned) => CompleteResult

NonEmptyLists(m) == \A k \in DOMAIN m : m[k] # <<>>
NoDupLists(m) == \A k \in DOMAIN m : NoDup(m[k])

\* C3: a file path appears at most once in result[K] of the returned
\* mapping, and at most once per keyword in a worker's partial result, for
\* every worker count and every keyword sequence, repeated keywords included.
NoDuplication ==
    /\ Returned => NoDupLists(result)
    /\ \A i \in DOMAIN workers : NoDupLists(workers[i].local)

\* What the search computes with a single worker: the files in order, the
\* keywords in order, as lines 50-63 go through them.
RECURSIVE ScanFrom(_, _, _)
ScanFrom(m, fi, ki) ==
    IF fi > Len(files) THEN m
    ELSE LET c == _read_text_safely(dir, files[fi]) IN
         IF ~c.readable \/ ki > Len(keywords) THEN ScanFrom(m, fi + 1, 1)
         ELSE ScanFrom(Record(m, keywords[ki], files[fi],
                              KeywordFound(keywords[ki], c.text, case_insensitive)),
                       fi, ki + 1)

OneWorkerResult == ScanFrom(EmptyMap, 1, 1)

\* C4: the returned mapping, as a set of (keyword, path) pairs, is the same
\* for every worker count: it is the set a single worker produces.
PartitionInvariance == Returned => Pairs(result) = Pairs(OneWorkerResult)

\* C5: the search returns only after every spawned worker has finished: none
\* is still scanning, waiting for or holding the lock, or yet to put its
\* partial result, and no partial result is left on the queue.
BlockingJoin ==
    Returned =>
        /\ \A i \in DOMAIN workers : workers[i].pc = "done"
        /\ lock = 0
        /\ result_queue = <<>>
        /\ mode = "mp" => received = Len(workers)
        /\ joined = Len(workers)

\* C5's case: a threaded search with several threads has returned.
BlockingJoinWitness ==
    /\ Returned
    /\ mode = "th"
    /\ Len(workers) >= 2
    /\ DOMAIN result # {}

\* C6: with an unreadable file in the list, the search still returns, without
\* error, a mapping that holds no pair of an unreadable file and every match
\* of the readable files.
UnreadableTolerance ==
    (\E f \in Range(files) : ~dir[f].file.readable) =>
        /\ pc # "error"
        /\ \A i \in DOMAIN workers : \A k \in DOMAIN workers[i].local :
               \A f \in Range(workers[i].local[k]) : dir[f].file.readable
        /\ Returned =>
               \A f \in Range(files) : \A k \in Range(keywords) :
                   IF dir[f].file.readable
                   THEN ShouldMatch(f, k) => Recorded(result, f, k)
                   ELSE ~Recorded(result, f, k)

\* C7: when the filtered file list is empty the search returns an empty
\* mapping at once: _chunks is not called, no worker is started, the queue
\* and the lock are never used, and no error is raised.
EmptyInput ==
    CollectFiles(dir, allow_extensions) = <<>> =>
        /\ pc \in {"collect", "returned"}
        /\ result = EmptyMap
        /\ workers = <<>>
        /\ chunks = <<>>
        /\ calls = NoCalls

\* C7's case: a directory whose files are all filtered out, after the return.
EmptyInputWitness ==
    /\ Returned
    /\ dir # <<>>
    /\ files = <<>>
    /\ allow_extensions # {}

\* C8: every key of a worker's map, of a queued partial result, of the
\* aggregated map, of the shared map and of the returned mapping has a
\* non-empty list, and a keyword no file matches is not a key of the result.
NoEmptyLists ==
    /\ \A i \in DOMAIN workers : NonEmptyLists(workers[i].local)
    /\ \A j \in DOMAIN result_queue : NonEmptyLists(result_queue[j])
    /\ NonEmptyLists(aggregated)
    /\ NonEmptyLists(results)
    /\ NonEmptyLists(result)
    /\ Returned =>
           \A k \in Range(keywords) :
               (\A f \in DOMAIN dir : ~ShouldMatch(f, k)) => k \notin DOMAIN result

\* C8's case: a search that returned a mapping with a key, after testing a
\* keyword that no file holds.
NoEmptyListsWitness ==
    /\ Returned
    /\ DOMAIN result # {}
    /\ \E k \in Range(keywords) :
           /\ k \notin DOMAIN result
           /\ \E f \in Range(files) : dir[f].file.readable

\* C9: if no worker crashes, under fair scheduling the search eventually
\* returns, in both modes.
Termination == <>Returned

\* C9's case: a search of several workers has returned after the lock was
\* taken more than once, or after more than one get.
TerminationWitness ==
    /\ Returned
    /\ Len(workers) >= 2
    /\ calls.lock >= 2 \/ calls.queue >= 4

\* C10: an entry is scanned exactly when allow_extensions is empty or its
\* suffix equals a member of allow_extensions up to letter case.
ExtensionFilterIgnoresCase ==
    pc # "collect" =>
        \A f \in DOMAIN dir :
            f \in Range(files) <=>
                \/ allow_extensions = {}
                \/ \E e \in allow_extensions : Lower(e) = Lower(dir[f].suffix)


\* C11: in threaded_search every thread scans the chunk that batch held when
\* the thread was created, so every file is read by exactly one thread,
\* under every interleaving of the spawning loop with the started threads.
ThreadScansOwnChunk ==
    mode = "th" =>
        \A i \in DOMAIN workers :
            workers[i].pc # "start" => workers[i].items = chunks[i]

\* Threads inside the append, that is between with lock: and its release.
Appending == {i \in DOMAIN workers : workers[i].pc = "append"}

\* The sum of the lengths of the lists of a map.
RECURSIVE EntryCountOf(_, _)
EntryCountOf(m, keys) ==
    IF keys = {} THEN 0
    ELSE LET k == CHOOSE x \in keys : TRUE IN
         Len(m[k]) + EntryCountOf(m, keys \ {k})

EntryCount(m) == EntryCountOf(m, DOMAIN m)

\* C12: at most one thread at a time is inside an append; a thread holds the
\* lock exactly while it is inside its append, never while it reads a file
\* or tests a keyword; and every change of the shared map is one append,
\* made by the thread that holds the lock, which releases it with that
\* append.
LockDiscipline ==
    /\ [](/\ Cardinality(Appending) <= 1
          /\ \A i \in DOMAIN workers : (lock = i) <=> (workers[i].pc = "append")
          /\ lock # 0 => lock \in DOMAIN workers)
    /\ [][results' # results =>
             /\ lock # 0
             /\ workers[lock].pc = "append"
             /\ lock' = 0
             /\ workers'[lock].pc \in {"test", "read", "done"}
             /\ EntryCount(results') = EntryCount(results) + 1]_vars

\* C12's case: one thread holds the lock while another waits for it.
LockDisciplineWitness ==
    /\ mode = "th"
    /\ lock # 0
    /\ \E i \in DOMAIN workers : workers[i].pc = "acquire"


Done == {i \in DOMAIN workers : workers[i].pc = "done"}
Crashed == {i \in DOMAIN workers : workers[i].pc = "crashed"}

\* C13: a process puts its partial result once, and only after its whole
\* chunk; the orchestrator gets once per started process, joins only after
\* all those gets, and returns with an empty queue: every partial result put
\* was merged, none twice.
HandOffProtocol ==
    mode = "mp" =>
        /\ NoDup(history.puts)
        /\ Range(history.puts) = Done
        /\ Len(result_queue) + received = Len(history.puts)
        /\ \A i \in DOMAIN workers :
               workers[i].pc \in {"put", "done"} =>
                   workers[i].fi > Len(workers[i].items)
        /\ received <= Len(workers)
        /\ Len(history.partials) = received
        /\ (joined > 0 \/ pc \in {"join", "report", "returned"}) =>
               received = Len(workers)
        /\ (Returned /\ files # <<>>) =>
               /\ result_queue = <<>>
               /\ Done = DOMAIN workers
               /\ calls.queue = 2 * Len(workers)

\* C13's case: a search of two processes has returned, the second process
\* having put its result first.
HandOffProtocolWitness ==
    /\ mode = "mp"
    /\ Returned
    /\ Len(workers) >= 2
    /\ history.puts[1] > history.puts[2]

\* C14: once a process has died without its put the search never returns:
\* it stays in the spawning loop and then in a get, the dead process stays
\* dead (nothing restarts it), and no mapping is returned, whatever the other
\* processes deliver.
CrashBlocksForever ==
    /\ [](Crashed # {} =>
              /\ mode = "mp"
              /\ pc \in {"spawn", "get"}
              /\ pc = "get" => received < Len(workers)
              /\ result = EmptyMap)
    /\ [][\A i \in Crashed : i \in DOMAIN workers' /\ workers'[i].pc = "crashed"]_vars

\* C14's case: one process is dead, all the others have delivered and their
\* results are merged; the search is in its last get with an empty queue.
CrashBlocksForeverWitness ==
    /\ Cardinality(Crashed) = 1
    /\ Len(workers) >= 2
    /\ Done \cup Crashed = DOMAIN workers
    /\ pc = "get"
    /\ result_queue = <<>>
    /\ received = Len(workers) - 1
    /\ DOMAIN aggregated # {}

\* The list a map holds for a key: empty when the key is absent.
ListOf(m, k) == IF k \in DOMAIN m THEN m[k] ELSE <<>>

\* The lists of the maps ms[j], ms[j + 1], ... for key k, one after another.
RECURSIVE ConcatFrom(_, _, _)
ConcatFrom(ms, k, j) ==
    IF j > Len(ms) THEN <<>>
    ELSE ListOf(ms[j], k) \o ConcatFrom(ms, k, j + 1)

\* C15: the aggregated map holds, for every keyword, the lists of the
\* partial results in the order they were got, one after another; its keys
\* are the keys of the partial results; and that map is what is returned.
AggregationInOrder ==
    mode = "mp" =>
        /\ DOMAIN aggregated =
               UNION {DOMAIN history.partials[j] : j \in DOMAIN history.partials}
        /\ \A k \in DOMAIN aggregated :
               aggregated[k] = ConcatFrom(history.partials, k, 1)
        /\ (Returned /\ files # <<>>) =>
               /\ result = aggregated
               /\ Len(history.partials) = Len(workers)

\* C15's case: two partial results with a common keyword were merged and the
\* mapping returned, one of them also holding a keyword the other lacks.
AggregationInOrderWitness ==
    /\ mode = "mp"
    /\ Returned
    /\ Len(history.partials) = 2
    /\ \E k \in DOMAIN history.partials[1] \cap DOMAIN history.partials[2] :
           history.partials[1][k] # history.partials[2][k]
    /\ DOMAIN history.partials[1] # DOMAIN history.partials[2]

\* Position of path f in the chunk a worker scans.
PosIn(items, f) == CHOOSE p \in 1..Len(items) : items[p] = f

\* The paths of s are paths of items and come in the order of items.
InChunkOrder(s, items) ==
    /\ Range(s) \subseteq Range(items)
    /\ \A p, q \in 1..Len(s) : p < q => PosIn(items, s[p]) <= PosIn(items, s[q])

\* The lists, for key k, of the workers' own maps in the order of their puts.
RECURSIVE BlocksFrom(_, _)
BlocksFrom(k, j) ==
    IF j > Len(history.puts) THEN <<>>
    ELSE ListOf(workers[history.puts[j]].local, k) \o BlocksFrom(k, j + 1)

\* Map new is map old with path f added at the end of the list for k.
IsAppendOf(new, old, k, f) ==
    /\ DOMAIN new = DOMAIN old \cup {k}
    /\ new[k] = ListOf(old, k) \o <<f>>
    /\ \A j \in DOMAIN old \ {k} : new[j] = old[j]

\* C19: for every keyword the paths one worker contributed are in the order
\* of the chunk it scanned, which is the order of the file list. In mp every
\* process's own list is in that order and the returned list is made of one
\* block per process. In th the threads' entries may interleave: every
\* change of the shared map adds, at the end of one list, the path at which
\* the thread holding the lock stands in its chunk, and no thread ever moves
\* backwards in its chunk or changes the chunk it scans.
PerWorkerOrder ==
    /\ [](/\ \A i \in DOMAIN workers :
                 /\ InChunkOrder(workers[i].items, files)
                 /\ \A k \in DOMAIN workers[i].local :
                        InChunkOrder(workers[i].local[k], workers[i].items)
          /\ (mode = "mp" /\ Returned) =>
                 \A k \in DOMAIN result : result[k] = BlocksFrom(k, 1)
          /\ (mode = "th" /\ Returned) => result = results)
    /\ [][/\ results' # results =>
                /\ lock \in DOMAIN workers
                /\ IsAppendOf(results', results, keywords[workers[lock].ki],
                              workers[lock].items[workers[lock].fi])
          /\ \A i \in DOMAIN workers :
                /\ workers'[i].fi >= workers[i].fi
                /\ workers[i].pc # "start" => workers'[i].items = workers[i].items]_vars

\* C19's case: a threaded search of two threads, each scanning a chunk of
\* its own, has returned a list in which their entries alternate.
PerWorkerOrderWitness ==
    /\ mode = "th"
    /\ Returned
    /\ Len(workers) = 2
    /\ workers[1].items # workers[2].items
    /\ \E k \in DOMAIN result :
           /\ Len(result[k]) = 4
           /\ result[k][1] = result[k][3]
           /\ result[k][2] = result[k][4]
           /\ result[k][1] # result[k][2]

\* The chunks one after another.
RECURSIVE Flatten(_, _)
Flatten(cs, c) == IF c > Len(cs) THEN <<>> ELSE cs[c] \o Flatten(cs, c + 1)

\* Number of paths in the chunks before chunk c.
RECURSIVE Before(_, _)
Before(cs, c) == IF c <= 1 THEN 0 ELSE Len(cs[c - 1]) + Before(cs, c - 1)

\* _chunks has been called with a non-empty list and n >= 1.
Partitioned == calls.chunks > 0 /\ files # <<>> /\ num_workers >= 1

\* C16: for a non-empty list and n >= 1 the call raises nothing, every chunk
\* is the slice of the list that starts where the chunk before it ends, the
\* chunks one after another are the list, and every path is in exactly one
\* chunk.
PartitionCovering ==
    Partitioned =>
        /\ pc # "error"
        /\ Flatten(chunks, 1) = files
        /\ \A c \in DOMAIN chunks :
               chunks[c] = SubSeq(files, Before(chunks, c) + 1,
                                  Before(chunks, c) + Len(chunks[c]))
        /\ \A f \in Range(files) :
               Cardinality({c \in DOMAIN chunks : f \in Range(chunks[c])}) = 1

\* C16's case: a call that cut a list into three chunks, the last one shorter.
PartitionCoveringWitness ==
    /\ pc = "chunked"
    /\ Len(chunks) = 3
    /\ Len(chunks[3]) < Len(chunks[1])

\* ceil(len / n) for n >= 1: the least s with s * n >= len.
Ceil(len, n) == CHOOSE s \in 0..len : s * n >= len /\ \A t \in 0..(s - 1) : t * n < len

\* C17: for a list of L >= 1 paths and n >= 1 every chunk but the last has
\* ceil(L / n) paths, no chunk is empty, there are at most n chunks, and L
\* chunks of one path when n > L; the search starts at least one worker
\* and at most num_workers = max(1, min(L, parallelism)) of them, one per
\* chunk.
ChunkSizes ==
    /\ Partitioned =>
           /\ \A c \in 1..(Len(chunks) - 1) :
                  Len(chunks[c]) = Ceil(Len(files), num_workers)
           /\ \A c \in DOMAIN chunks :
                  /\ chunks[c] # <<>>
                  /\ Len(chunks[c]) <= Ceil(Len(files), num_workers)
           /\ Len(chunks) >= 1
           /\ Len(chunks) <= num_workers
           /\ num_workers > Len(files) =>
                  /\ Len(chunks) = Len(files)
                  /\ \A c \in DOMAIN chunks : Len(chunks[c]) = 1
    /\ pc \in {"spawn", "get", "join"} =>
           /\ \E cpu \in CpuCounts :
                  num_workers =
                      Max(1, Min(Len(files),
                                 IF cpu # 0 THEN cpu
                                 ELSE IF mode = "mp" THEN DefaultProcs
                                      ELSE DefaultThreads))
           /\ Len(workers) = next_chunk - 1
           /\ Len(workers) <= num_workers
    /\ pc \in {"get", "join"} =>
           /\ Len(workers) = Len(chunks)
           /\ Len(workers) >= 1

\* C17's case: a search of more files than workers has started fewer workers
\* than num_workers, the rounded-up chunk size leaving no file for the last.
ChunkSizesWitness ==
    /\ pc = "join"
    /\ num_workers = 4
    /\ Len(workers) = 3
    /\ Len(files) > num_workers

\* C18: for an empty list and any n the call raises nothing and returns no
\* chunk at all.
EmptyPartition ==
    (calls.chunks > 0 /\ files = <<>>) =>
        /\ pc # "error"
        /\ chunks = <<>>

====
